---- MODULE Spec2Model ----
(***************************************************************************)
(* DotCodeSchool CLI: the test runner's state machine.                     *)
(*                                                                         *)
(* The model follows src/src/runner.rs (TestRunner::new, TestRunner::run), *)
(* src/src/parsing.rs (load_course), the driver loop of src/src/main.rs    *)
(* and the load-failure arm of src/src/runner/mod.rs (RunnerVersion).      *)
(* Terminal colours and the progress bar's rendering are left out: a line  *)
(* printed through the progress bar is recorded as a record in `out`.      *)
(***************************************************************************)
EXTENDS Integers, Sequences, FiniteSets, TLC

(* ---------------------------- bounds ----------------------------------- *)
\* largest number of suites of a course
MaxSuites == 2
\* largest number of tests of a course, over all its suites
MaxTotal == 3
\* largest number of characters of a test's command
MaxCmdLen == 3
\* largest number of calls of run() on a runner of an unsupported version
\* that is in Finish
MaxReruns == 2

(* ---------------------------- constants -------------------------------- *)
V_1_0 == "1.0"
Versions == {"1.0", "2.0"}
SuiteNames == {"Basics"}
DefaultPath == "./tests.json"
MissingPaths == {"./nope.json"}
Paths == {DefaultPath} \cup MissingPaths
SerdeError == "expected value at line 1 column 1"

(* ---------------------------- strings ---------------------------------- *)
\* str::to_lowercase / str::to_uppercase on the names of the model
to_lowercase(s) ==
  CASE s = "Bar" -> "bar"
    [] s = "Basics" -> "basics"
    [] OTHER -> s

to_uppercase(s) ==
  CASE s = "Bar" -> "BAR"
    [] s = "foo" -> "FOO"
    [] s = "Basics" -> "BASICS"
    [] OTHER -> s

(* ---------------------------- data ------------------------------------- *)
\* the tests a course of the model is written from: two mandatory tests of
\* different names and an optional one
JsonTest ==
  {[name |-> "foo", optional |-> FALSE],
   [name |-> "Bar", optional |-> FALSE],
   [name |-> "foo", optional |-> TRUE]}

SeqsUpTo(S, n) == UNION {[1..k -> S] : k \in 0..n}

\* the suites that hold at most n tests
JsonTestSuite(n) ==
  [name : SuiteNames, optional : BOOLEAN, tests : SeqsUpTo(JsonTest, n)]

\* the lists of at most k suites that hold at most n tests together
RECURSIVE SuiteLists(_, _)
SuiteLists(k, n) ==
  IF k = 0 THEN {<< >>}
  ELSE {<< >>} \cup
       UNION {{<<s>> \o rest : rest \in SuiteLists(k - 1, n - Len(s.tests))} :
                s \in JsonTestSuite(n)}

JsonCourse == [version : Versions, suites : SuiteLists(MaxSuites, MaxTotal)]

\* JsonCourse::default() with the version set to V_1_0 (runner.rs:137-138)
DefaultCourse == [version |-> V_1_0, suites |-> << >>]

(* ---------------------------- the runner's states ---------------------- *)
\* TestRunnerState: one record shape for the six variants; the fields a
\* variant does not carry are 0 and << >>.
St(tag, i, j, msg) ==
  [tag |-> tag, index_suite |-> i, index_test |-> j, msg |-> msg]
Loaded == St("Loaded", 0, 0, << >>)
NewSuite(i) == St("NewSuite", i, 0, << >>)
NewTest(i, j) == St("NewTest", i, j, << >>)
Failed(msg) == St("Failed", 0, 0, msg)
Passed == St("Passed", 0, 0, << >>)
Finish == St("Finish", 0, 0, << >>)

\* a printed line: what it is, its words, and its number
Line(kind, text, num) == [kind |-> kind, text |-> text, num |-> num]

VARIABLES
  args_path,   \* main: the path given on the command line, or the default
  load,        \* what load_course returned for it
  runner,      \* "TestRunner" (runner.rs) or "Undefined" (runner/mod.rs)
  state,       \* TestRunner.state
  success,     \* TestRunner.success
  course,      \* TestRunner.course
  out,         \* the lines printed through the progress bar, in order
  errlog,      \* the messages given to log::error!
  executed,    \* the test commands run so far, in order
  pc,          \* main: "loop", "exit" (returned) or "panic" (aborted);
               \* "execute" for a call of JsonTest::execute on its own
  cmd,         \* JsonTest::execute: the test's command, a string
  process,     \* JsonTest::execute: what running the command will give
  returned     \* JsonTest::execute: what the call returned

\* the variables of a call of JsonTest::execute
exec == <<cmd, process, returned>>

vars ==
  <<args_path, load, runner, state, success, course, out, errlog, executed, pc,
    cmd, process, returned>>

(* ---------------------------- parsing.rs ------------------------------- *)
\* what a path of the file system holds: nothing, text that is no course,
\* or a course
NoFile == [kind |-> "missing", course |-> DefaultCourse]
BadFile == [kind |-> "malformed", course |-> DefaultCourse]
CourseFile(c) == [kind |-> "course", course |-> c]
Files == {BadFile} \cup {CourseFile(c) : c \in JsonCourse}

\* Result<JsonCourse, ParsingError>
Ok(c) == [tag |-> "Ok", course |-> c, msg |-> ""]
Err(tag, msg) == [tag |-> tag, course |-> DefaultCourse, msg |-> msg]

\* load_course: read_to_string fails -> FileOpenError(path); from_str fails
\* -> CourseFmtError(err.to_string()); else the course
load_course(path, file) ==
  CASE file.kind = "missing" -> Err("FileOpenError", path)
    [] file.kind = "malformed" -> Err("CourseFmtError", SerdeError)
    [] OTHER -> Ok(file.course)

\* the characters of a command: the space and two others
Chars == {" ", "a", "b"}
Commands == SeqsUpTo(Chars, MaxCmdLen)

\* str::split_whitespace: the maximal runs of characters that are no space
RECURSIVE split_whitespace(_)
split_whitespace(str) ==
  IF str = << >> THEN << >>
  ELSE LET rest == split_whitespace(Tail(str))
       IN IF Head(str) = " " THEN rest
          ELSE IF Len(str) > 1 /\ str[2] # " "
               THEN <<<<Head(str)>> \o Head(rest)>> \o Tail(rest)
               ELSE <<<<Head(str)>>>> \o rest

\* what Command::output() gives: an error (the process was not spawned), or
\* an exit status with the captured stdout and stderr, valid UTF-8 or not
Outcome(spawned, ok, utf8) == [spawned |-> spawned, success |-> ok, utf8 |-> utf8]
NoProcess == Outcome(FALSE, FALSE, TRUE)
Processes ==
  {NoProcess} \cup {Outcome(TRUE, ok, utf8) : ok \in BOOLEAN, utf8 \in BOOLEAN}

\* TestResult, and the two ways a call does not return one
NotReturned == [tag |-> "none", text |-> ""]
Panicked == [tag |-> "panic", text |-> ""]
Pass(text) == [tag |-> "Pass", text |-> text]
Fail(text) == [tag |-> "Fail", text |-> text]

\* JsonTest::execute: command[0] panics when the command has no token; an
\* unspawnable process is a Fail; the exit status decides otherwise, and
\* String::from_utf8(..).unwrap() panics on output that is not UTF-8
execute(command, p) ==
  IF Len(split_whitespace(command)) = 0 THEN Panicked
  ELSE IF ~p.spawned THEN Fail("could not execute test")
  ELSE IF ~p.utf8 THEN Panicked
  ELSE IF p.success THEN Pass("stdout") ELSE Fail("stderr")

(* ---------------------------- runner.rs: helpers ----------------------- *)
RECURSIVE SumTests(_, _)
SumTests(suites, k) ==
  IF k = 0 THEN 0 ELSE SumTests(suites, k - 1) + Len(suites[k].tests)

\* variant of exercise_count: the tests of optional suites are not counted
RECURSIVE SumMandatory(_, _)
SumMandatory(suites, k) ==
  IF k = 0 THEN 0
  ELSE SumMandatory(suites, k - 1)
       + (IF suites[k].optional THEN 0 ELSE Len(suites[k].tests))

exercise_count_mandatory(c) == SumMandatory(c.suites, Len(c.suites))

\* course.suites.iter().fold(0, |acc, suite| acc + suite.tests.len())
exercise_count(c) == SumTests(c.suites, Len(c.suites))

\* format!("{:.2}", success as f64 / exercise_count as f64 * 100f64), as the
\* number of hundredths printed; 0/0 is NaN and prints "NaN".  The quotient
\* is rounded to the nearest hundredth (a tie, to the even one: no count
\* below 64 produces a tie).
score(succ, count) ==
  IF count = 0 THEN Line("score", <<"NaN">>, 0)
  ELSE LET n == succ * 10000
           q == n \div count
           r == n % count
       IN Line("score", << >>,
               IF 2 * r > count \/ (2 * r = count /\ q % 2 = 1)
               THEN q + 1 ELSE q)

\* variant of halts: the negation of suite.optional is lost
halts_optional_suite(test, suite) == ~test.optional /\ suite.optional

\* variant of halts: || in place of &&
halts_either(test, suite) == ~test.optional \/ ~suite.optional

\* the condition under which a failed test stops the run (runner.rs:251)
halts(test, suite) == ~test.optional /\ ~suite.optional

\* variant of advance: the arm of the next suite is matched first
advance_suite_first(c, index_suite, index_test) ==
  LET more_suites == index_suite + 1 < Len(c.suites)
      more_tests == index_test + 1 < Len(c.suites[index_suite + 1].tests)
  IN CASE more_suites -> NewSuite(index_suite + 1)
       [] ~more_suites /\ more_tests -> NewTest(index_suite, index_test + 1)
       [] OTHER -> Passed

\* variant of advance: <= in place of < in the test of the next test
advance_off_by_one(c, index_suite, index_test) ==
  LET more_suites == index_suite + 1 < Len(c.suites)
      more_tests == index_test + 1 <= Len(c.suites[index_suite + 1].tests)
  IN CASE more_tests -> NewTest(index_suite, index_test + 1)
       [] ~more_tests /\ more_suites -> NewSuite(index_suite + 1)
       [] OTHER -> Passed

\* the position after a test that did not stop the run (runner.rs:266-291)
advance(c, index_suite, index_test) ==
  LET more_suites == index_suite + 1 < Len(c.suites)
      more_tests == index_test + 1 < Len(c.suites[index_suite + 1].tests)
  IN CASE more_tests -> NewTest(index_suite, index_test + 1)
       [] ~more_tests /\ more_suites -> NewSuite(index_suite + 1)
       [] OTHER -> Passed

\* variant of count: the increment is made after the match, for any result
count_always(succ, result) == succ + 1

\* the success counter after a test (runner.rs:231-262): a pass counts
count(succ, result) == IF result = "Pass" THEN succ + 1 ELSE succ

\* variant of run_test: a failed command is run a second time
run_test_retry(done, index_suite, index_test, test, result) ==
  LET once == Append(done, [index_suite |-> index_suite,
                            index_test |-> index_test,
                            name |-> test.name, result |-> result])
  IN IF result = "Fail"
     THEN Append(once, [index_suite |-> index_suite, index_test |-> index_test,
                        name |-> test.name, result |-> result])
     ELSE once

\* test.run() (runner.rs:231): the command of the test at the position is
\* run, once
run_test(done, index_suite, index_test, test, result) ==
  Append(done, [index_suite |-> index_suite, index_test |-> index_test,
                name |-> test.name, result |-> result])

\* variant of failed_next: the Failed arm returns Passed
failed_next_passed == Passed

\* the state the Failed arm returns (runner.rs:302-307)
failed_next == Finish

\* variant of test_failure: the name is not lowercased
test_failure_as_declared(test) == <<"Failed test", test.name>>

\* the reason of a load failure (runner.rs:143-145)
parse_failure == <<"could not parse test file">>

\* format!("Failed test {test_name}") with test_name the lowercased name
test_failure(test) == <<"Failed test", to_lowercase(test.name)>>

(* ---------------------------- construction ----------------------------- *)
\* variant of TestRunner::new: the version is matched when the course is
\* loaded, and another version is a failure
TestRunner_new_eager(res) ==
  IF res.tag = "Ok" /\ res.course.version = V_1_0
  THEN [runner |-> "TestRunner", state |-> Loaded, course |-> res.course,
        errlog |-> << >>]
  ELSE [runner |-> "TestRunner", state |-> Failed(parse_failure),
        course |-> res.course,
        errlog |-> <<IF res.tag = "Ok" THEN res.course.version ELSE res.msg>>]

\* TestRunner::new (runner.rs)
TestRunner_new(res) ==
  IF res.tag = "Ok"
  THEN [runner |-> "TestRunner", state |-> Loaded, course |-> res.course,
        errlog |-> << >>]
  ELSE [runner |-> "TestRunner", state |-> Failed(parse_failure),
        course |-> DefaultCourse, errlog |-> <<res.msg>>]

\* Runner::new, Err arm (runner/mod.rs): RunnerVersion::Undefined, whose
\* state() is Finish.  The Ok arm wraps the v1 runner, which is not modelled.
Runner_new(res) ==
  [runner |-> "Undefined", state |-> Finish, course |-> DefaultCourse,
   errlog |-> <<res.msg>>]

Init ==
  \E path \in Paths, file \in Files, wrapped \in BOOLEAN :
    LET res == load_course(path, IF path \in MissingPaths THEN NoFile ELSE file)
        r == IF wrapped THEN Runner_new(res) ELSE TestRunner_new(res)
    IN /\ wrapped => res.tag # "Ok"
       /\ path \in MissingPaths => file = BadFile
       /\ args_path = path
       /\ load = res
       /\ runner = r.runner
       /\ state = r.state
       /\ success = 0
       /\ course = r.course
       /\ out = << >>
       /\ errlog = r.errlog
       /\ executed = << >>
       /\ pc = "loop"
       /\ cmd = << >>
       /\ process = NoProcess
       /\ returned = NotReturned

(* ---------------------------- TestRunner::run -------------------------- *)
\* main.rs:38-39: run() is called while the state is not Finish
Driving == pc = "loop" /\ state # Finish

\* variant of supported: every version the model knows is matched
supported_any(version) == version \in Versions

\* the version match of run() (runner.rs:168-169, 346)
supported(version) == version = V_1_0

InV1 == Driving /\ runner = "TestRunner" /\ supported(course.version)

\* Loaded: the banner and the number of exercises; then NewSuite(0)
RunLoaded ==
  /\ InV1 /\ state.tag = "Loaded"
  /\ out' = out \o <<Line("banner", << >>, 0),
                     Line("exercises", << >>, exercise_count(course))>>
  /\ state' = NewSuite(0)
  /\ UNCHANGED <<args_path, load, runner, success, course, errlog, executed, pc>>
  /\ UNCHANGED exec

\* NewSuite(index_suite): the suite's header; then NewTest(index_suite, 0).
\* course.suites[index_suite] panics out of bounds.
RunNewSuite ==
  /\ InV1 /\ state.tag = "NewSuite"
  /\ LET i == state.index_suite IN
       IF i >= Len(course.suites)
       THEN /\ pc' = "panic"
            /\ UNCHANGED <<state, out>>
       ELSE LET suite == course.suites[i + 1] IN
            /\ out' = Append(out, Line("suite",
                 <<to_uppercase(suite.name)>>
                   \o (IF suite.optional THEN <<"(optional)">> ELSE << >>), i))
            /\ state' = NewTest(i, 0)
            /\ pc' = pc
  /\ UNCHANGED <<args_path, load, runner, success, course, errlog, executed>>
  /\ UNCHANGED exec

\* NewTest(index_suite, index_test): the test's header, then the command is
\* run; a pass counts, a failure of a mandatory test of a mandatory suite
\* returns Failed, anything else moves on.  suite.tests[index_test] panics
\* out of bounds.
RunNewTest ==
  /\ InV1 /\ state.tag = "NewTest"
  /\ LET i == state.index_suite
         j == state.index_test
     IN IF i >= Len(course.suites) \/ j >= Len(course.suites[i + 1].tests)
        THEN /\ pc' = "panic"
             /\ UNCHANGED <<state, out, success, executed>>
        ELSE LET suite == course.suites[i + 1]
                 test == suite.tests[j + 1]
                 header == Line("test",
                   <<to_lowercase(test.name)>>
                     \o (IF test.optional THEN <<"(optional)">> ELSE << >>), j)
             IN \E result \in {"Pass", "Fail"} :
                  /\ executed' = run_test(executed, i, j, test, result)
                  /\ out' = out \o <<header, Line(result, << >>, 0)>>
                  /\ success' = count(success, result)
                  /\ state' = IF result = "Fail" /\ halts(test, suite)
                              THEN Failed(test_failure(test))
                              ELSE advance(course, i, j)
                  /\ pc' = pc
  /\ UNCHANGED <<args_path, load, runner, course, errlog>>
  /\ UNCHANGED exec

\* Failed(msg): the error line; then Finish
RunFailed ==
  /\ InV1 /\ state.tag = "Failed"
  /\ out' = Append(out, Line("error", state.msg, 0))
  /\ state' = failed_next
  /\ UNCHANGED <<args_path, load, runner, success, course, errlog, executed, pc>>
  /\ UNCHANGED exec

\* Passed: the final score; then Finish
RunPassed ==
  /\ InV1 /\ state.tag = "Passed"
  /\ out' = Append(out, score(success, exercise_count(course)))
  /\ state' = Finish
  /\ UNCHANGED <<args_path, load, runner, success, course, errlog, executed, pc>>
  /\ UNCHANGED exec

\* any other version: the unsupported-version line; then Finish
RunUnsupported ==
  /\ Driving /\ runner = "TestRunner" /\ ~supported(course.version)
  /\ out' = Append(out, Line("unsupported", <<course.version>>, 0))
  /\ state' = Finish
  /\ UNCHANGED <<args_path, load, runner, success, course, errlog, executed, pc>>
  /\ UNCHANGED exec

\* main.rs:38: the loop ends once the state is Finish, and main returns
Exit ==
  /\ pc = "loop" /\ state = Finish
  /\ pc' = "exit"
  /\ UNCHANGED <<args_path, load, runner, state, success, course, out, errlog,
                 executed>>
  /\ UNCHANGED exec

Next ==
  \/ RunLoaded
  \/ RunNewSuite
  \/ RunNewTest
  \/ RunFailed
  \/ RunPassed
  \/ RunUnsupported
  \/ Exit

Spec == Init /\ [][Next]_vars

(* ---------------------------- run() called by any caller --------------- *)
\* Finish: the runner is returned as it is (runner.rs:338-343)
RunFinish ==
  /\ pc = "loop" /\ runner = "TestRunner" /\ supported(course.version)
  /\ state = Finish
  /\ UNCHANGED vars

\* the unsupported-version arm does not look at the state: it is taken in
\* Finish as in any other state (runner.rs:168, 346-360)
RerunUnsupported ==
  /\ pc = "loop" /\ runner = "TestRunner" /\ ~supported(course.version)
  /\ state = Finish
  /\ Len(out) <= MaxReruns
  /\ out' = Append(out, Line("unsupported", <<course.version>>, 0))
  /\ state' = Finish
  /\ UNCHANGED <<args_path, load, runner, success, course, errlog, executed, pc>>
  /\ UNCHANGED exec

\* RunnerVersion::run on Undefined returns Undefined (runner/mod.rs:106)
RunUndefined ==
  /\ pc = "loop" /\ runner = "Undefined"
  /\ UNCHANGED vars

NextApi ==
  \/ RunLoaded
  \/ RunNewSuite
  \/ RunNewTest
  \/ RunFailed
  \/ RunPassed
  \/ RunUnsupported
  \/ RunFinish
  \/ RerunUnsupported
  \/ RunUndefined
  \/ Exit

\* the runner with run() called in any state, Finish included
SpecApi == Init /\ [][NextApi]_vars

(* ---------------------------- JsonTest::execute on its own ------------- *)
InitExec ==
  /\ cmd \in Commands
  /\ process \in Processes
  /\ returned = NotReturned
  /\ pc = "execute"
  /\ args_path = DefaultPath
  /\ load = Ok(DefaultCourse)
  /\ runner = "TestRunner"
  /\ state = Loaded
  /\ success = 0
  /\ course = DefaultCourse
  /\ out = << >>
  /\ errlog = << >>
  /\ executed = << >>

Execute ==
  /\ pc = "execute" /\ returned = NotReturned
  /\ returned' = execute(cmd, process)
  /\ UNCHANGED <<args_path, load, runner, state, success, course, out, errlog,
                 executed, pc, cmd, process>>

SpecExec == InitExec /\ [][Execute]_vars

\* the exit status of the process: main returns () once the loop ends, and a
\* panic ends the process with status 101 (main.rs:17-41)
exit_status ==
  CASE pc = "exit" -> 0
    [] pc = "panic" -> 101
    [] OTHER -> -1

(* ======================================================================= *)
(* Properties                                                              *)
(* ======================================================================= *)

\* the tests of the first k suites in declaration order, each with its
\* position
RECURSIVE FlatUpTo(_, _)
FlatUpTo(c, k) ==
  IF k = 0 THEN << >>
  ELSE FlatUpTo(c, k - 1) \o
       [j \in 1..Len(c.suites[k].tests) |->
          [index_suite |-> k - 1, index_test |-> j - 1,
           name |-> c.suites[k].tests[j].name,
           optional |-> c.suites[k].tests[j].optional,
           suite_optional |-> c.suites[k].optional]]

Declared == FlatUpTo(course, Len(course.suites))

\* the k-th executed test was mandatory in a mandatory suite, and failed
MandatoryFail(k) ==
  /\ executed[k].result = "Fail"
  /\ ~course.suites[executed[k].index_suite + 1].optional
  /\ ~course.suites[executed[k].index_suite + 1]
        .tests[executed[k].index_test + 1].optional

\* the k-th executed test failed, and it or its suite was optional
OptionalFail(k) ==
  /\ executed[k].result = "Fail"
  /\ ~MandatoryFail(k)

LinesOf(kind) == SelectSeq(out, LAMBDA l : l.kind = kind)

Passes == Cardinality({k \in 1..Len(executed) : executed[k].result = "Pass"})

LoadedOk == load.tag = "Ok"

\* C1: a failed mandatory test of a mandatory suite is the last test of the
\* run: the step that ran it returned Failed (the state is Failed, or it is
\* Finish with the error line printed last), and no test ran after it.
C1_MandatoryFailureHalts ==
  \A k \in 1..Len(executed) :
    MandatoryFail(k) =>
      /\ k = Len(executed)
      /\ \/ state.tag = "Failed"
         \/ state = Finish /\ out[Len(out)].kind = "error"

\* a run stopped by a mandatory failure with tests left to run
C1_Witness ==
  /\ pc = "exit"
  /\ Len(executed) > 0
  /\ MandatoryFail(Len(executed))
  /\ Len(executed) < Len(Declared)
  /\ Len(LinesOf("error")) = 1

\* where the claim says a test that did not stop the run leads to: the next
\* test of the suite, else the next suite, else Passed
NextPosition(i, j) ==
  IF j + 1 < Len(course.suites[i + 1].tests) THEN NewTest(i, j + 1)
  ELSE IF i + 1 < Len(course.suites) THEN NewSuite(i + 1)
  ELSE Passed

\* a step that ran a test
RanTest == Len(executed') = Len(executed) + 1

\* C2: a failed test that is optional, or whose suite is, does not lead to
\* Failed: the step leaves the success counter alone and moves to the next
\* test, else the next suite, else Passed, as a passed test does; and a run
\* over one optional suite whose tests all failed ends with the score printed.
C2_OptionalFailureAdvances ==
  /\ [][RanTest =>
          LET i == state.index_suite
              j == state.index_test
              suite == course.suites[i + 1]
              test == suite.tests[j + 1]
              result == executed'[Len(executed')].result
          IN /\ (result = "Fail" /\ (test.optional \/ suite.optional))
                  => state' = NextPosition(i, j) /\ success' = success
             /\ result = "Pass"
                  => state' = NextPosition(i, j) /\ success' = success + 1]_vars
  /\ [](/\ pc = "exit" /\ LoadedOk /\ supported(course.version)
        /\ Len(course.suites) = 1
        /\ course.suites[1].optional
        /\ Len(course.suites[1].tests) > 0
        => /\ Len(executed) = Len(course.suites[1].tests)
           /\ Len(LinesOf("score")) = 1
           /\ Len(LinesOf("error")) = 0)

\* one optional suite of two tests, both failed, and the run passed with 0.00
C2_Witness ==
  /\ pc = "exit"
  /\ Len(course.suites) = 1
  /\ course.suites[1].optional
  /\ Len(executed) = 2
  /\ ~course.suites[1].tests[1].optional
  /\ executed[1].result = "Fail"
  /\ executed[2].result = "Fail"
  /\ LinesOf("score") = <<Line("score", << >>, 0)>>

\* C3: the tests executed are, in order, the first tests of the course in
\* declaration order (same position, same name), and the suite headers
\* printed are those of suites 0, 1, 2, ... in order.
C3_DeclarationOrder ==
  /\ Len(executed) <= Len(Declared)
  /\ \A k \in 1..Len(executed) :
       /\ executed[k].index_suite = Declared[k].index_suite
       /\ executed[k].index_test = Declared[k].index_test
       /\ executed[k].name = Declared[k].name
  /\ \A k \in 1..Len(LinesOf("suite")) :
       /\ LinesOf("suite")[k].num = k - 1
       /\ k <= Len(course.suites)

\* a whole run over two suites and three tests, not all of one name
C3_Witness ==
  /\ pc = "exit"
  /\ Len(course.suites) = 2
  /\ Len(executed) = 3
  /\ Len(Declared) = 3
  /\ executed[1].name # executed[2].name
  /\ Len(LinesOf("suite")) = 2

\* h hundredths is the number of hundredths nearest to 100 * p / n
NearestHundredths(h, p, n) ==
  LET d == h * n - p * 10000
  IN 2 * (IF d < 0 THEN -d ELSE d) <= n

\* C4: a score line is printed by the Passed step only, and its number is
\* 100 * (tests passed in this run) / (tests of the course, optional ones
\* included) to two decimals.
C4_ScoreIsPassedOverTotal ==
  \A k \in 1..Len(out) :
    out[k].kind = "score" =>
      /\ k = Len(out)
      /\ state = Finish
      /\ out[k].text = << >>
      /\ Len(Declared) > 0
      /\ NearestHundredths(out[k].num, Passes, Len(Declared))

\* a passed run in which an optional test failed and another test passed:
\* the score is neither 0 nor 100
C4_Witness ==
  /\ pc = "exit"
  /\ Len(LinesOf("score")) = 1
  /\ \E k \in 1..Len(executed) : OptionalFail(k)
  /\ \E k \in 1..Len(executed) : executed[k].result = "Pass"
  /\ LinesOf("score")[1].num \in {3333, 5000, 6667}

\* C8: a course of a version other than 1.0 runs no test: the state is
\* Loaded with nothing printed, or Finish with the unsupported-version line
\* alone, and the run does not abort.
C8_UnsupportedVersion ==
  (LoadedOk /\ course.version # "1.0") =>
    /\ executed = << >>
    /\ success = 0
    /\ pc # "panic"
    /\ \/ state = Loaded /\ out = << >> /\ pc = "loop"
       \/ state = Finish /\ out = <<Line("unsupported", <<course.version>>, 0)>>

\* a version 2.0 course with three tests, after the run
C8_Witness ==
  /\ pc = "exit"
  /\ LoadedOk
  /\ course.version = "2.0"
  /\ Len(Declared) = 3
  /\ Len(LinesOf("unsupported")) = 1

\* every test executed so far passed
AllPassed == \A k \in 1..Len(executed) : executed[k].result = "Pass"

V1Course == LoadedOk /\ course.version = "1.0"

\* C5: a run in which every test passes does not abort or fail, and ends
\* with the score 100.00 printed.
C5_AllPassScoresHundred ==
  (V1Course /\ AllPassed) =>
    /\ pc # "panic"
    /\ state.tag # "Failed"
    /\ pc = "exit" => LinesOf("score") = <<Line("score", << >>, 10000)>>

\* C6: a course with no suite enters neither NewSuite nor NewTest, does not
\* abort, and ends with the score 100.00 printed.
C6_ZeroSuitesPass ==
  (V1Course /\ Len(course.suites) = 0) =>
    /\ state.tag \notin {"NewSuite", "NewTest"}
    /\ pc # "panic"
    /\ pc = "exit" => LinesOf("score") = <<Line("score", << >>, 10000)>>

HasEmptySuite ==
  \E i \in 1..Len(course.suites) : Len(course.suites[i].tests) = 0

\* C7: a run over a course with a suite of no tests does not abort.
C7_EmptySuiteIsNoOp ==
  (V1Course /\ HasEmptySuite) => pc # "panic"

\* the words of msg include the path
NamesPath(msg) == \E k \in 1..Len(msg) : msg[k] = args_path

\* C9: after a failed load the engine is in Failed, or in Finish with the
\* failure report printed by the Failed step; no test runs.
C9_LoadFailureEntersFailed ==
  ~LoadedOk =>
    /\ executed = << >>
    /\ state.tag \in {"Failed", "Finish"}
    /\ state.tag = "Finish" => Len(LinesOf("error")) = 1

\* C10: when the file is missing, the reason of the Failed state and the
\* error line printed for it name the path.
C10_FailureNamesPath ==
  load.tag = "FileOpenError" =>
    /\ state.tag = "Failed" => NamesPath(state.msg)
    /\ \A k \in 1..Len(out) : out[k].kind = "error" => NamesPath(out[k].text)

\* C11: run() on a runner in Finish returns it as it is and does nothing:
\* the state stays Finish, the success counter and the course are the same,
\* no test is executed and nothing is printed.
C11_FinishIsIdempotent ==
  [][(pc = "loop" /\ state = Finish /\ pc' = "loop") =>
        /\ state' = Finish
        /\ success' = success
        /\ course' = course
        /\ executed' = executed
        /\ out' = out]_vars

\* the k-th declared test is mandatory in a mandatory suite
Mandatory(k) == ~Declared[k].optional /\ ~Declared[k].suite_optional

\* C12: in state Passed every mandatory test of a mandatory suite has been
\* executed in this run, and passed.
C12_PassedMeansMandatoryPassed ==
  state.tag = "Passed" =>
    \A k \in 1..Len(Declared) :
      Mandatory(k) =>
        /\ k <= Len(executed)
        /\ executed[k].index_suite = Declared[k].index_suite
        /\ executed[k].index_test = Declared[k].index_test
        /\ executed[k].result = "Pass"

\* Passed, with a mandatory test that passed and an optional one that failed
C12_Witness ==
  /\ state.tag = "Passed"
  /\ \E k \in 1..Len(Declared) : Mandatory(k)
  /\ \E k \in 1..Len(executed) : OptionalFail(k)

\* C13: executing a test whose command has no token returns Fail.
C13_EmptyCommandFails ==
  (pc = "execute" /\ split_whitespace(cmd) = << >> /\ returned # NotReturned)
    => returned.tag = "Fail"

\* C14: the process exits non-zero after a run that went through Failed, and
\* zero after a run that went through Passed.
C14_ExitStatusFollowsPath ==
  pc = "exit" =>
    /\ Len(LinesOf("error")) > 0 => exit_status # 0
    /\ Len(LinesOf("score")) > 0 => exit_status = 0

\* C15: the driver loop stops only by observing Finish.
C15_DriverReachesFinish ==
  pc \notin {"loop", "execute"} => (pc = "exit" /\ state = Finish)

\* the test of the course at a position
TestAt(i, j) == course.suites[i + 1].tests[j + 1]

Before(i, j) ==
  {k \in 1..Len(executed) :
     \/ executed[k].index_suite < i
     \/ executed[k].index_suite = i /\ executed[k].index_test < j}

\* the number of declared tests before position (i, j)
DeclaredBefore(i, j) ==
  Cardinality({k \in 1..Len(Declared) :
     \/ Declared[k].index_suite < i
     \/ Declared[k].index_suite = i /\ Declared[k].index_test < j})

\* C17: the success counter is the number of passes among the tests
\* executed; in NewTest(i, j) and NewSuite(i) the tests executed are exactly
\* those before the position, so an outcome is never counted without the
\* position having moved past its test.
C17_CounterMatchesPosition ==
  /\ success = Passes
  /\ state.tag \in {"NewTest", "NewSuite"} =>
       LET i == state.index_suite
           j == state.index_test
       IN /\ Before(i, j) = 1..Len(executed)
          /\ Len(executed) = DeclaredBefore(i, j)
          /\ success =
               Cardinality({k \in Before(i, j) : executed[k].result = "Pass"})

\* at the first test of the second suite, one of two tests having passed
C17_Witness ==
  /\ state = NewTest(1, 0)
  /\ Len(executed) = 2
  /\ success = 1
  /\ executed[1].result = "Fail"

FailedRun ==
  \/ ~LoadedOk
  \/ LoadedOk /\ course.version # "1.0"
  \/ state.tag = "Failed"
  \/ Len(LinesOf("error")) > 0

\* C18: a score line is printed by a step taken in Passed only, and a run
\* that fails to load, has an unsupported version or enters Failed is never
\* in Passed and prints no score.
C18_ScoreOnlyWhenPassed ==
  /\ [][Len(LinesOf("score"))' > Len(LinesOf("score")) => state.tag = "Passed"]_vars
  /\ [](FailedRun => LinesOf("score") = << >> /\ state.tag # "Passed")

\* a run stopped by a mandatory failure after a test passed
C18_Witness ==
  /\ pc = "exit"
  /\ success > 0
  /\ Len(LinesOf("error")) = 1
  /\ Len(LinesOf("score")) = 0

\* C19: the Failed step prints the error line with the reason and returns
\* Finish; the success counter, the course and the tests executed are as
\* they were.
C19_FailedStepFrame ==
  [][(pc = "loop" /\ state.tag = "Failed") =>
        /\ state' = Finish
        /\ success' = success
        /\ course' = course
        /\ executed' = executed
        /\ out' = Append(out, Line("error", state.msg, 0))]_vars

\* after the Failed step of a run in which two tests had passed
C19_Witness ==
  /\ state = Finish
  /\ success = 2
  /\ Len(executed) = 3
  /\ out[Len(out)].kind = "error"

\* C20: a step executes at most one test, and only in NewTest(i, j), where
\* it executes the test at (i, j).
C20_OneTestPerStep ==
  [][executed' # executed =>
        /\ state.tag = "NewTest"
        /\ Len(executed') = Len(executed) + 1
        /\ SubSeq(executed', 1, Len(executed)) = executed
        /\ executed'[Len(executed')].index_suite = state.index_suite
        /\ executed'[Len(executed')].index_test = state.index_test
        /\ executed'[Len(executed')].name
             = TestAt(state.index_suite, state.index_test).name]_vars

\* three tests executed, the second of which failed; the runner is in Finish,
\* where run() can be called again
C20_Witness ==
  /\ state = Finish
  /\ pc = "loop"
  /\ Len(executed) = 3
  /\ executed[2].result = "Fail"
  /\ Len(LinesOf("score")) = 1

WellFormed == V1Course /\ Len(course.suites) >= 1 /\ ~HasEmptySuite

\* C22: over a version 1.0 course with at least one suite and no empty
\* suite, the indices of NewSuite and NewTest are within the course, no step
\* aborts, and success <= tests executed <= tests of the course.
C22_IndicesInBounds ==
  WellFormed =>
    /\ state.tag = "NewSuite" => state.index_suite < Len(course.suites)
    /\ state.tag = "NewTest" =>
         /\ state.index_suite < Len(course.suites)
         /\ state.index_test < Len(course.suites[state.index_suite + 1].tests)
    /\ pc # "panic"
    /\ success <= Len(executed)
    /\ Len(executed) <= exercise_count(course)

\* at the last test of the last suite of a course of two suites, with a
\* failure among the tests executed
C22_Witness ==
  /\ WellFormed
  /\ Len(course.suites) = 2
  /\ state = NewTest(1, 1)
  /\ Len(executed) = 2
  /\ success = 1

====
